---------------------------- MODULE Spec2Model ----------------------------
(***************************************************************************)
(* Model of the run recycler of libpmemobj (src/libpmemobj/recycler.c).    *)
(*                                                                         *)
(* The heap is a fixed set of runs.  Every run has a bitmap of             *)
(* MAX_BITMAP_VALUES words of BITS_PER_VALUE bits (a set bit is an         *)
(* allocated block), a chunk header with a size_idx, and, while it is in   *)
(* the pending container, a reservation counter nresv.  The recycler keeps *)
(* the tree `runs`, the vector `pending`, the counter unaccounted_units    *)
(* and the flag recalc_inprogress.                                         *)
(*                                                                         *)
(* Modelling assumptions: Malloc/Realloc never fail; the word geometry is  *)
(* scaled down from 38 words of 64 bits; a caller hands a run to the       *)
(* recycler only while the recycler does not track it, and puts it with    *)
(* the score recycler_element_new gives; blocks are allocated only from a  *)
(* run a bucket owns or through a reservation on a pending run.            *)
(*                                                                         *)
(* Spec and SpecUnits follow one caller, call by call (SpecUnits adds      *)
(* recycler_inc_unaccounted); SpecMT follows the threads step by step.     *)
(***************************************************************************)
EXTENDS Integers, Sequences, FiniteSets, TLC

\* ------------------------------------------------------------------ bounds
NRuns == 2
NThreads == 2
BitsPerValue == 2
MaxBitmapValues == 2
Nallocs == 3
MaxResv == 1
MaxSizeIdx == 2
MaxReq == 3
MaxUnits == 7
MaxPending == 2
ScorerBitsPerValue == 4
ScorerBitmapValues == 2

\* ------------------------------------------------------- program constants
THRESHOLD_MUL == 2
ENOMEM == 12
UINT16_MOD == 65536
\* stands for UINT64_MAX: larger than any found_units the model can reach
UINT64_MAX == 1000000
\* stands for 2^32, the wrap of the unsigned difference of two free_space
\* values; below UINT64_MAX and above any found_units the model can reach
UINT32_MOD == 500000

Runs == 1 .. NRuns
NoRun == 0
Threads == 1 .. NThreads
NoThread == 0

\* the handle {zone_id, chunk_id} of run r; the pairs are pairwise distinct
\* and ordering by zone_id differs from ordering by chunk_id
zone_id(r) == r % 2
chunk_id(r) == r \div 2

VARIABLES
    bitmap,             \* heap: bitmap[r][i] is word i of run r's bitmap
    hdr_size_idx,       \* heap: size_idx in the chunk header of run r
    nresv,              \* nresv of the memory_block_reserved record of run r
    runs,               \* r->runs, the tree of recycler elements
    pending,            \* r->pending, a vector of reserved runs
    unaccounted_units,  \* r->unaccounted_units
    recalc_inprogress,  \* r->recalc_inprogress
    lock,               \* r->lock: the thread that holds it, NoThread if free
    pc,                 \* pc[t]: where thread t is in the call it is making
    loc,                \* loc[t]: the arguments and locals of that call
    last                \* the last call that returned and what it returned

heap == <<bitmap, hdr_size_idx, nresv>>
threads == <<lock, pc, loc>>
vars == <<bitmap, hdr_size_idx, nresv, runs, pending, unaccounted_units,
          recalc_inprogress, lock, pc, loc, last>>

\* ------------------------------------------------------- words and bitmaps
RECURSIVE Pow2(_)
Pow2(n) == IF n = 0 THEN 1 ELSE 2 * Pow2(n - 1)

WordMod == Pow2(BitsPerValue)

\* a scan that forgets to invert the word
BitNotW_missing(v, bits) == v

\* ~v on a word of the given number of bits
BitNotW(v, bits) == (Pow2(bits) - 1) - v

\* v << 1 on a word of the given number of bits
Shl1W(v, bits) == (2 * v) % Pow2(bits)

\* ~v on a word
BitNot(v) == BitNotW(v, BitsPerValue)

\* v << 1 on a word
Shl1(v) == Shl1W(v, BitsPerValue)

RECURSIVE BitAnd(_, _)
BitAnd(a, b) ==
    IF a = 0 \/ b = 0 THEN 0
    ELSE ((a % 2) * (b % 2)) + 2 * BitAnd(a \div 2, b \div 2)

RECURSIVE util_popcount64(_)
util_popcount64(v) == IF v = 0 THEN 0 ELSE (v % 2) + util_popcount64(v \div 2)

\* is bit b of word v set
BitSet(v, b) == (v \div Pow2(b)) % 2 = 1

\* block k (0-based) of a run lives in word WordOf(k), bit BitOf(k)
WordOf(k) == (k \div BitsPerValue) + 1
BitOf(k) == k % BitsPerValue
Blocks == 0 .. (Nallocs - 1)

\* a freshly filled run: every block allocated (the bits past nallocs are
\* permanently set, so the whole bitmap is ones)
FullBitmap == [i \in 1 .. MaxBitmapValues |-> WordMod - 1]

IsAllocated(bm, k) == BitSet(bm[WordOf(k)], BitOf(k))
SetBlock(bm, k) == [bm EXCEPT ![WordOf(k)] = @ + Pow2(BitOf(k))]
ClearBlock(bm, k) == [bm EXCEPT ![WordOf(k)] = @ - Pow2(BitOf(k))]

RECURSIVE ClearBlocks(_, _)
ClearBlocks(bm, S) ==
    IF S = {} THEN bm
    ELSE LET k == CHOOSE k \in S : TRUE
         IN  ClearBlocks(ClearBlock(bm, k), S \ {k})

\* --------------------------------------------------- recycler_element_cmp
\* a comparison that looks at free_space before max_free_block
recycler_element_cmp_fs_first(l, r) ==
    IF l.free_space # r.free_space
    THEN (IF l.free_space > r.free_space THEN 1 ELSE -1)
    ELSE IF l.max_free_block # r.max_free_block
    THEN (IF l.max_free_block > r.max_free_block THEN 1 ELSE -1)
    ELSE IF l.zone_id # r.zone_id
    THEN (IF l.zone_id > r.zone_id THEN 1 ELSE -1)
    ELSE IF l.chunk_id # r.chunk_id
    THEN (IF l.chunk_id > r.chunk_id THEN 1 ELSE -1)
    ELSE 0

recycler_element_cmp(l, r) ==
    IF l.max_free_block # r.max_free_block
    THEN (IF l.max_free_block > r.max_free_block THEN 1 ELSE -1)
    ELSE IF l.free_space # r.free_space
    THEN (IF l.free_space > r.free_space THEN 1 ELSE -1)
    ELSE IF l.zone_id # r.zone_id
    THEN (IF l.zone_id > r.zone_id THEN 1 ELSE -1)
    ELSE IF l.chunk_id # r.chunk_id
    THEN (IF l.chunk_id > r.chunk_id THEN 1 ELSE -1)
    ELSE 0

\* --------------------------------------------------- recycler_element_new
\* a count of the free bits of the word in place of its longest free block
LongestRun_popcount(value, n, bits) == util_popcount64(value)

\* the inner while loop, lines 197-201: value &= value << 1 until value is
\* 0, on words of the given number of bits
RECURSIVE LongestRunW(_, _, _)
LongestRunW(value, n, bits) ==
    IF value = 0 THEN n
    ELSE LongestRunW(BitAnd(value, Shl1W(value, bits)), n + 1, bits)

\* the longest free block of one word, lines 197-201
longest_in_value(value, bits) == LongestRunW(value, 0, bits)

\* the inner while loop on the words of the heap
LongestRun(value, n) == LongestRunW(value, n, BitsPerValue)

\* the for loop over the words of the bitmap, lines 171-205, from word i
\* on, for a bitmap of `words` words of `bits` bits
RECURSIVE ScanFromW(_, _, _, _, _, _)
ScanFromW(bm, i, free_space, max_block, bits, words) ==
    IF i > words
    THEN [free_space |-> free_space, max_block |-> max_block]
    ELSE
        LET value == BitNotW(bm[i], bits)
            free_in_value == util_popcount64(value)
            fs == (free_space + free_in_value) % UINT16_MOD
        IN  IF value = 0
            THEN ScanFromW(bm, i + 1, free_space, max_block, bits, words)
            ELSE IF free_in_value < max_block
            THEN ScanFromW(bm, i + 1, fs, max_block, bits, words)
            ELSE IF free_in_value = bits
            THEN ScanFromW(bm, i + 1, fs, bits, bits, words)
            ELSE LET n == longest_in_value(value, bits)
                 IN  ScanFromW(bm, i + 1, fs,
                               IF n > max_block THEN n ELSE max_block,
                               bits, words)

\* the for loop over the words of a bitmap of the heap
ScanFrom(bm, i, free_space, max_block) ==
    ScanFromW(bm, i, free_space, max_block, BitsPerValue, MaxBitmapValues)

\* recycler_element_new for a bitmap of `words` words of `bits` bits
recycler_element_newW(bm, m, bits, words) ==
    LET s == ScanFromW(bm, 1, 0, 0, bits, words)
    IN  [max_free_block |-> s.max_block,
         free_space |-> s.free_space,
         zone_id |-> zone_id(m),
         chunk_id |-> chunk_id(m)]

recycler_element_new(bm, m) ==
    recycler_element_newW(bm, m, BitsPerValue, MaxBitmapValues)

\* ------------------------------------------------------------ the tree
\* ravl_find(tree, key, RAVL_PREDICATE_GREATER_EQUAL): the smallest element
\* that is not below the key, NoElement when there is none
NoElement == [max_free_block |-> 0, free_space |-> 0, zone_id |-> 0,
              chunk_id |-> 0, null |-> TRUE]

ravl_find_ge(tree, key) ==
    LET cand == {e \in tree : recycler_element_cmp(e, key) >= 0}
    IN  IF cand = {} THEN NoElement
        ELSE CHOOSE e \in cand :
                \A f \in cand : recycler_element_cmp(e, f) <= 0

ravl_emplace_copy(tree, e) == tree \cup {e}

ravl_remove(tree, e) == tree \ {e}

\* the run a tree element names
RunOfElement(e) ==
    CHOOSE r \in Runs : zone_id(r) = e.zone_id /\ chunk_id(r) = e.chunk_id

\* ---------------------------------------------------------- the vectors
\* VEC_ERASE_BY_POS: the last element takes the place of the erased one
VEC_ERASE_BY_POS(vec, pos) ==
    LET n == Len(vec)
        moved == IF pos # n THEN [vec EXCEPT ![pos] = vec[n]] ELSE vec
    IN  SubSeq(moved, 1, n - 1)

VEC_PUSH_BACK(vec, el) == Append(vec, el)

InIndex(r) == \E e \in runs : RunOfElement(e) = r
InPending(r) == \E i \in 1 .. Len(pending) : pending[i] = r
Tracked(r) == InIndex(r) \/ InPending(r)

\* ------------------------------------------------ recycler_pending_check
\* a test of nresv the wrong way round
no_reservations_inverted(mr) == nresv[mr] # 0

\* a check that releases every pending run
no_reservations_any(mr) == TRUE

\* line 247
no_reservations(mr) == nresv[mr] = 0

\* VEC_FOREACH_BY_POS from position pos on: for (; pos < size; ++pos)
RECURSIVE pending_check_from(_, _, _)
pending_check_from(pos, pend, tree) ==
    IF pos > Len(pend)
    THEN [pending |-> pend, runs |-> tree]
    ELSE LET mr == pend[pos]
         IN  IF no_reservations(mr)
             THEN pending_check_from(pos + 1, VEC_ERASE_BY_POS(pend, pos),
                    ravl_emplace_copy(tree,
                        recycler_element_new(bitmap[mr], mr)))
             ELSE pending_check_from(pos + 1, pend, tree)

recycler_pending_check == pending_check_from(1, pending, runs)

\* ------------------------------------------------------- recycler_recalc
recalc_threshold_nomul == Nallocs

\* line 114
recalc_threshold == Nallocs * THRESHOLD_MUL

\* util_bool_compare_and_swap32(&v, old, new) succeeds when v = old
util_bool_compare_and_swap32(cur, old) == cur = old

\* unaccounted_units is held as an integer v that stands for v mod 2^64: a
\* negative v is a counter that has wrapped below zero
LessU64(a, b) ==
    \/ a >= 0 /\ b >= 0 /\ a < b
    \/ a >= 0 /\ b < 0
    \/ a < 0 /\ b < 0 /\ a < b

\* a claim of the gate that does not look at the flag
recalc_claim_blind == TRUE

\* line 323: the compare-and-swap of recalc_inprogress from 0 to 1 succeeds
recalc_claim == util_bool_compare_and_swap32(recalc_inprogress, 0)

\* line 375: the compare-and-swap of recalc_inprogress from 1 to 0 succeeds
recalc_release == util_bool_compare_and_swap32(recalc_inprogress, 1)

\* a subtraction of the live value of the counter, which resets it
recalc_sub_live(units) == 0

\* line 374: util_fetch_and_sub64(&r->unaccounted_units, units) leaves the
\* counter lower by units
recalc_sub(units) == unaccounted_units - units

\* an early return that does not look at recalc_inprogress
recalc_skip_noflag(force, units) ==
    ~force /\ LessU64(units, recalc_threshold)

\* a threshold that forgets THRESHOLD_MUL
recalc_skip_nomul(force, units) ==
    recalc_inprogress # 0 \/ (~force /\ LessU64(units, Nallocs))

\* line 320: the call returns at once
recalc_skip(force, units) ==
    recalc_inprogress # 0 \/ (~force /\ LessU64(units, recalc_threshold))

\* a limit that ignores force
search_limit_unforced(force, units) == units

\* line 329
search_limit(force, units) ==
    IF force \/ units < 0 THEN UINT64_MAX ELSE units

\* line 356: the rebuilt score shows the run empty
is_empty_run(e) == e.free_space = Nallocs

\* line 353
free_space_diff(e, existing_free_space) ==
    IF e.free_space >= existing_free_space
    THEN e.free_space - existing_free_space
    ELSE UINT32_MOD - (existing_free_space - e.free_space)

\* the do-while loop of a pass: st.runs is the tree, st.recalc the scratch
\* vector, st.empty the result vector, st.found_units the units found
RECURSIVE recalc_loop(_, _)
recalc_loop(st, limit) ==
    LET n == ravl_find_ge(st.runs,
                [max_free_block |-> 0, free_space |-> 0, zone_id |-> 0,
                 chunk_id |-> 0])
    IN  IF "null" \in DOMAIN n
        THEN st
        ELSE
            LET nm == RunOfElement(n)
                existing_free_space == n.free_space
                e == recycler_element_new(bitmap[nm], nm)
                found == st.found_units
                            + free_space_diff(e, existing_free_space)
                nst == [runs |-> ravl_remove(st.runs, n),
                        recalc |-> IF is_empty_run(e) THEN st.recalc
                                   ELSE VEC_PUSH_BACK(st.recalc, e),
                        empty |-> IF is_empty_run(e)
                                  THEN VEC_PUSH_BACK(st.empty, nm)
                                  ELSE st.empty,
                        found_units |-> found,
                        assert_ok |-> st.assert_ok
                            /\ e.free_space >= existing_free_space]
            IN  IF found < limit THEN recalc_loop(nst, limit) ELSE nst

\* the locked part of a pass: the loop, then the scratch vector is put back
RECURSIVE emplace_all(_, _)
emplace_all(tree, vec) ==
    IF vec = <<>> THEN tree
    ELSE emplace_all(ravl_emplace_copy(tree, Head(vec)), Tail(vec))

recalc_pass(force, units) ==
    LET st == recalc_loop([runs |-> runs, recalc |-> <<>>, empty |-> <<>>,
                           found_units |-> 0, assert_ok |-> TRUE],
                          search_limit(force, units))
    IN  [runs |-> emplace_all(st.runs, st.recalc), empty |-> st.empty,
         found_units |-> st.found_units, assert_ok |-> st.assert_ok]

SeqToSet(s) == {s[i] : i \in 1 .. Len(s)}

\* ------------------------------------------------------------ recycler_get
\* a probe that asks for one block more than requested
get_find_off_by_one(tree, size_idx) ==
    ravl_find_ge(tree, [max_free_block |-> size_idx + 1, free_space |-> 0,
                        zone_id |-> 0, chunk_id |-> 0])

\* a probe that forgets the requested size
get_find_any(tree, size_idx) ==
    ravl_find_ge(tree, [max_free_block |-> 0, free_space |-> 0,
                        zone_id |-> 0, chunk_id |-> 0])

\* lines 272-274: the probe and the search
get_find(tree, size_idx) ==
    ravl_find_ge(tree, [max_free_block |-> size_idx, free_space |-> 0,
                        zone_id |-> 0, chunk_id |-> 0])

\* a handle that keeps the size_idx of the request
get_size_idx_kept(m, size_idx) == size_idx

\* line 287: the size_idx written into the handle that is returned
get_size_idx(m, size_idx) == hdr_size_idx[m]

\* lines 270-289, the part of recycler_get that runs under the lock
get_locked(size_idx) ==
    LET pchk == recycler_pending_check
        n == get_find(pchk.runs, size_idx)
    IN  IF "null" \in DOMAIN n
        THEN [pending |-> pchk.pending, runs |-> pchk.runs, ret |-> ENOMEM,
              ne |-> n, m |-> NoRun, size_idx |-> size_idx]
        ELSE [pending |-> pchk.pending, runs |-> ravl_remove(pchk.runs, n),
              ret |-> 0, ne |-> n, m |-> RunOfElement(n),
              size_idx |-> get_size_idx(RunOfElement(n), size_idx)]

\* ------------------------------------------------------------ the heap
Idle == [op |-> "none"]

InitRecycler ==
    /\ nresv = [r \in Runs |-> 0]
    /\ runs = {}
    /\ pending = <<>>
    /\ unaccounted_units = 0
    /\ recalc_inprogress = 0
    /\ lock = NoThread
    /\ pc = [t \in Threads |-> "idle"]
    /\ loc = [t \in Threads |-> Idle]
    /\ last = Idle

Init ==
    /\ bitmap = [r \in Runs |-> FullBitmap]
    /\ hdr_size_idx \in [Runs -> 1 .. MaxSizeIdx]
    /\ InitRecycler

\* the allocator frees block k of run r
FreeBlock(r, k) ==
    /\ IsAllocated(bitmap[r], k)
    /\ bitmap' = [bitmap EXCEPT ![r] = ClearBlock(@, k)]
    /\ last' = [op |-> "heap"]
    /\ UNCHANGED <<hdr_size_idx, nresv, runs, pending, unaccounted_units,
                   recalc_inprogress, threads>>

\* the allocator allocates block k of run r: from a run a bucket owns, or
\* by publishing a reservation made on a run that is now pending
AllocBlock(r, k) ==
    /\ ~IsAllocated(bitmap[r], k)
    /\ IF InPending(r) THEN nresv[r] > 0 ELSE ~InIndex(r)
    /\ bitmap' = [bitmap EXCEPT ![r] = SetBlock(@, k)]
    /\ last' = [op |-> "heap"]
    /\ UNCHANGED <<hdr_size_idx, nresv, runs, pending, unaccounted_units,
                   recalc_inprogress, threads>>

\* a reservation on a pending run is published or cancelled
DecResv(r) ==
    /\ InPending(r)
    /\ nresv[r] > 0
    /\ nresv' = [nresv EXCEPT ![r] = @ - 1]
    /\ last' = [op |-> "heap"]
    /\ UNCHANGED <<bitmap, hdr_size_idx, runs, pending, unaccounted_units,
                   recalc_inprogress, threads>>

\* ------------------------------------- the calls, one caller at a time
\* recycler_put(r, m, recycler_element_new(heap, m)) for a run the caller owns
Put(m) ==
    /\ ~Tracked(m)
    /\ LET element == recycler_element_new(bitmap[m], m)
       IN  /\ runs' = ravl_emplace_copy(runs, element)
           /\ last' = [op |-> "put", m |-> m, element |-> element, ret |-> 0]
    /\ UNCHANGED <<heap, pending, unaccounted_units, recalc_inprogress,
                   threads>>

\* recycler_pending_put(r, mr) for a run the caller owns, n reservations of
\* which are still unfulfilled
PendingPut(m, n) ==
    /\ ~Tracked(m)
    /\ pending' = VEC_PUSH_BACK(pending, m)
    /\ nresv' = [nresv EXCEPT ![m] = n]
    /\ last' = [op |-> "pending_put", m |-> m]
    /\ UNCHANGED <<bitmap, hdr_size_idx, runs, unaccounted_units,
                   recalc_inprogress, threads>>

\* recycler_get(r, m) with m->size_idx = size_idx
Get(size_idx) ==
    LET g == get_locked(size_idx)
    IN  /\ pending' = g.pending
        /\ runs' = g.runs
        /\ last' = [op |-> "get", n |-> size_idx, ret |-> g.ret,
                    ne |-> g.ne, m |-> g.m, size_idx |-> g.size_idx,
                    after_put |-> IF last.op = "put"
                                     /\ last.element.max_free_block = size_idx
                                  THEN last.m ELSE NoRun]
        /\ UNCHANGED <<heap, unaccounted_units, recalc_inprogress, threads>>

\* recycler_recalc(r, force), from call to return
Recalc(force) ==
    LET units == unaccounted_units
    IN  IF recalc_skip(force, units)
        THEN /\ last' = [op |-> "recalc", force |-> force, units |-> units,
                         pass |-> FALSE, ret |-> {}, found_units |-> 0]
             /\ UNCHANGED <<heap, runs, pending, unaccounted_units,
                            recalc_inprogress, threads>>
        ELSE LET p == recalc_pass(force, units)
             IN  /\ recalc_claim
                 /\ runs' = p.runs
                 /\ unaccounted_units' = recalc_sub(units)
                 /\ recalc_inprogress' = 0
                 /\ last' = [op |-> "recalc", force |-> force,
                             units |-> units, pass |-> TRUE,
                             ret |-> SeqToSet(p.empty),
                             found_units |-> p.found_units]
                 /\ UNCHANGED <<heap, pending, threads>>

\* recycler_inc_unaccounted(r, m) with m->size_idx = size_idx; no increment
\* is followed past MaxUnits or once the counter has wrapped below zero
IncUnaccounted(size_idx) ==
    /\ unaccounted_units >= 0
    /\ unaccounted_units + size_idx <= MaxUnits
    /\ unaccounted_units' = unaccounted_units + size_idx
    /\ last' = [op |-> "inc_unaccounted"]
    /\ UNCHANGED <<heap, runs, pending, recalc_inprogress, threads>>

Next ==
    \/ \E r \in Runs, k \in Blocks : FreeBlock(r, k)
    \/ \E r \in Runs, k \in Blocks : AllocBlock(r, k)
    \/ \E r \in Runs : DecResv(r)
    \/ \E m \in Runs : Put(m)
    \/ \E m \in Runs, n \in 1 .. MaxResv : PendingPut(m, n)
    \/ \E size_idx \in 1 .. MaxReq : Get(size_idx)
    \/ \E force \in BOOLEAN : Recalc(force)

Spec == Init /\ [][Next]_vars

\* the same calls together with recycler_inc_unaccounted, on a heap whose
\* runs all span one chunk
InitUnits ==
    /\ bitmap = [r \in Runs |-> FullBitmap]
    /\ hdr_size_idx = [r \in Runs |-> 1]
    /\ InitRecycler

NextUnits ==
    \/ Next
    \/ \E size_idx \in 1 .. Nallocs : IncUnaccounted(size_idx)

SpecUnits == InitUnits /\ [][NextUnits]_vars

\* ----------------------------------------- the calls, thread by thread
Return(t, result) ==
    /\ pc' = [pc EXCEPT ![t] = "idle"]
    /\ loc' = [loc EXCEPT ![t] = Idle]
    /\ last' = result

Goto(t, label) == pc' = [pc EXCEPT ![t] = label]

\* no thread is handing run m to the recycler
Unclaimed(m) ==
    \A u \in Threads : loc[u].op \in {"put", "pending_put"} => loc[u].m # m

\* recycler_recalc, line 318: units = r->unaccounted_units; no new call is
\* followed once the counter has wrapped below zero
T_RecalcSnapshot(t, force) ==
    /\ pc[t] = "idle"
    /\ unaccounted_units >= 0
    /\ Goto(t, "recalc_320")
    /\ loc' = [loc EXCEPT ![t] = [op |-> "recalc", force |-> force,
                                  units |-> unaccounted_units, ret |-> {}]]
    /\ UNCHANGED <<heap, runs, pending, unaccounted_units,
                   recalc_inprogress, lock, last>>

RecalcResult(t, pass) ==
    [op |-> "recalc", force |-> loc[t].force, pass |-> pass,
     ret |-> loc[t].ret]

\* lines 320-321
T_RecalcCheck(t) ==
    /\ pc[t] = "recalc_320"
    /\ IF recalc_skip(loc[t].force, loc[t].units)
       THEN Return(t, RecalcResult(t, FALSE))
       ELSE Goto(t, "recalc_323") /\ UNCHANGED <<loc, last>>
    /\ UNCHANGED <<heap, runs, pending, unaccounted_units,
                   recalc_inprogress, lock>>

\* lines 323-324: util_bool_compare_and_swap32(&r->recalc_inprogress, 0, 1)
T_RecalcClaim(t) ==
    /\ pc[t] = "recalc_323"
    /\ IF recalc_claim
       THEN /\ recalc_inprogress' = 1
            /\ Goto(t, "recalc_326")
            /\ UNCHANGED <<loc, last>>
       ELSE /\ Return(t, RecalcResult(t, FALSE))
            /\ UNCHANGED recalc_inprogress
    /\ UNCHANGED <<heap, runs, pending, unaccounted_units, lock>>

\* line 326: util_mutex_lock(&r->lock)
T_RecalcLock(t) ==
    /\ pc[t] = "recalc_326"
    /\ lock = NoThread
    /\ lock' = t
    /\ Goto(t, "recalc_329")
    /\ UNCHANGED <<heap, runs, pending, unaccounted_units,
                   recalc_inprogress, loc, last>>

\* lines 329-370: the pass
T_RecalcPass(t) ==
    /\ pc[t] = "recalc_329"
    /\ LET p == recalc_pass(loc[t].force, loc[t].units)
       IN  /\ runs' = p.runs
           /\ loc' = [loc EXCEPT ![t].ret = SeqToSet(p.empty)]
    /\ Goto(t, "recalc_372")
    /\ UNCHANGED <<heap, pending, unaccounted_units, recalc_inprogress,
                   lock, last>>

\* line 372: util_mutex_unlock(&r->lock)
T_RecalcUnlock(t) ==
    /\ pc[t] = "recalc_372"
    /\ lock' = NoThread
    /\ Goto(t, "recalc_374")
    /\ UNCHANGED <<heap, runs, pending, unaccounted_units,
                   recalc_inprogress, loc, last>>

\* line 374: util_fetch_and_sub64(&r->unaccounted_units, units)
T_RecalcSub(t) ==
    /\ pc[t] = "recalc_374"
    /\ unaccounted_units' = recalc_sub(loc[t].units)
    /\ Goto(t, "recalc_375")
    /\ UNCHANGED <<heap, runs, pending, recalc_inprogress, lock, loc, last>>

\* lines 375-378: util_bool_compare_and_swap32(&r->recalc_inprogress, 1, 0)
T_RecalcRelease(t) ==
    /\ pc[t] = "recalc_375"
    /\ recalc_inprogress' =
            IF recalc_release THEN 0
            ELSE recalc_inprogress
    /\ Return(t, RecalcResult(t, TRUE))
    /\ UNCHANGED <<heap, runs, pending, unaccounted_units, lock>>

\* recycler_put, line 226, called with the score of a run the caller owns
T_PutLock(t, m) ==
    /\ pc[t] = "idle"
    /\ ~Tracked(m)
    /\ Unclaimed(m)
    /\ lock = NoThread
    /\ lock' = t
    /\ Goto(t, "put_228")
    /\ loc' = [loc EXCEPT ![t] =
                [op |-> "put", m |-> m,
                 element |-> recycler_element_new(bitmap[m], m)]]
    /\ UNCHANGED <<heap, runs, pending, unaccounted_units,
                   recalc_inprogress, last>>

\* recycler_put, lines 228-232
T_PutUnlock(t) ==
    /\ pc[t] = "put_228"
    /\ runs' = ravl_emplace_copy(runs, loc[t].element)
    /\ lock' = NoThread
    /\ Return(t, [op |-> "put", ret |-> 0])
    /\ UNCHANGED <<heap, pending, unaccounted_units, recalc_inprogress>>

\* recycler_get, line 268
T_GetLock(t, size_idx) ==
    /\ pc[t] = "idle"
    /\ lock = NoThread
    /\ lock' = t
    /\ Goto(t, "get_270")
    /\ loc' = [loc EXCEPT ![t] = [op |-> "get", n |-> size_idx]]
    /\ UNCHANGED <<heap, runs, pending, unaccounted_units,
                   recalc_inprogress, last>>

\* recycler_get, lines 270-294
T_GetUnlock(t) ==
    /\ pc[t] = "get_270"
    /\ LET g == get_locked(loc[t].n)
       IN  /\ pending' = g.pending
           /\ runs' = g.runs
           /\ Return(t, [op |-> "get", ret |-> g.ret, m |-> g.m])
    /\ lock' = NoThread
    /\ UNCHANGED <<heap, unaccounted_units, recalc_inprogress>>

\* recycler_inc_unaccounted by any thread: one atomic fetch-and-add
T_IncUnaccounted(size_idx) == IncUnaccounted(size_idx)

\* a heap whose runs each hold one last allocated block, block 0
InitMT ==
    /\ bitmap = [r \in Runs |-> ClearBlocks(FullBitmap, Blocks \ {0})]
    /\ hdr_size_idx = [r \in Runs |-> 1]
    /\ InitRecycler

NextMT ==
    \/ \E t \in Threads, force \in BOOLEAN : T_RecalcSnapshot(t, force)
    \/ \E t \in Threads : T_RecalcCheck(t)
    \/ \E t \in Threads : T_RecalcClaim(t)
    \/ \E t \in Threads : T_RecalcLock(t)
    \/ \E t \in Threads : T_RecalcPass(t)
    \/ \E t \in Threads : T_RecalcUnlock(t)
    \/ \E t \in Threads : T_RecalcSub(t)
    \/ \E t \in Threads : T_RecalcRelease(t)
    \/ \E t \in Threads, m \in Runs : T_PutLock(t, m)
    \/ \E t \in Threads : T_PutUnlock(t)
    \/ \E t \in Threads, size_idx \in 1 .. MaxReq : T_GetLock(t, size_idx)
    \/ \E t \in Threads : T_GetUnlock(t)
    \/ T_IncUnaccounted(Nallocs)
    \/ \E r \in Runs, k \in Blocks : FreeBlock(r, k)

SpecMT == InitMT /\ [][NextMT]_vars

\* ------------------------------------ gets that keep being called
\* put, pending_put and get by one caller, reservations running out, on
\* runs that have free blocks; recycler_get is called again and again
NextLive ==
    \/ \E m \in Runs : Put(m)
    \/ \E m \in Runs, n \in 1 .. MaxResv : PendingPut(m, n)
    \/ \E r \in Runs : DecResv(r)
    \/ \E size_idx \in 1 .. MaxReq : Get(size_idx)
    \/ \E r \in Runs, k \in Blocks : FreeBlock(r, k)

SpecLive ==
    /\ InitMT
    /\ [][NextLive]_vars
    /\ WF_vars(\E size_idx \in 1 .. MaxReq : Get(size_idx))

\* ------------------------------------------------- the scorer on its own
\* recycler_element_new(heap, m) on a run whose bitmap nothing else touches;
\* the bitmaps here have ScorerBitmapValues words of ScorerBitsPerValue bits
Score(m) ==
    /\ last' = [op |-> "score", m |-> m,
                element |-> recycler_element_newW(bitmap[m], m,
                                ScorerBitsPerValue, ScorerBitmapValues)]
    /\ UNCHANGED <<heap, runs, pending, unaccounted_units,
                   recalc_inprogress, threads>>

\* run 1 holds any bitmap at all, every other run is full
InitScore ==
    /\ \E bm \in [1 .. ScorerBitmapValues -> 0 .. (Pow2(ScorerBitsPerValue) - 1)] :
            bitmap = [r \in Runs |->
                        IF r = 1 THEN bm
                        ELSE [i \in 1 .. ScorerBitmapValues |->
                                Pow2(ScorerBitsPerValue) - 1]]
    /\ hdr_size_idx = [r \in Runs |-> 1]
    /\ InitRecycler

NextScore == \E m \in Runs : Score(m)

SpecScore == InitScore /\ [][NextScore]_vars

\* recalc and inc_unaccounted by several threads: the counter and the gate
NextGate ==
    \/ \E t \in Threads, force \in BOOLEAN : T_RecalcSnapshot(t, force)
    \/ \E t \in Threads : T_RecalcCheck(t)
    \/ \E t \in Threads : T_RecalcClaim(t)
    \/ \E t \in Threads : T_RecalcLock(t)
    \/ \E t \in Threads : T_RecalcPass(t)
    \/ \E t \in Threads : T_RecalcUnlock(t)
    \/ \E t \in Threads : T_RecalcSub(t)
    \/ \E t \in Threads : T_RecalcRelease(t)
    \/ \E size_idx \in 1 .. Nallocs : T_IncUnaccounted(size_idx)

SpecGate == InitMT /\ [][NextGate]_vars

\* ------------------------------ recycler_pending_put, thread by thread
\* VEC_PUSH_BACK(&r->pending, m) is size++ followed by buffer[size - 1] = m,
\* with no lock taken (lines 300-306): the call loads the size, and stores
\* the size and the slot later.  What the store leaves in the vector when
\* other calls touched it in between: the slots below the loaded size keep
\* what they hold, those the vector no longer covers hold records the buffer
\* held earlier (any run), and the new record is the last one.
vec_store(vec, size, stale, el) ==
    [i \in 1 .. (size + 1) |->
        IF i = size + 1 THEN el
        ELSE IF i <= Len(vec) THEN vec[i]
        ELSE stale[i]]

\* recycler_pending_put, line 304: the load of the size; the record of run m
\* comes with n reservations still unfulfilled; no call is followed on a
\* vector of MaxPending records or more
T_PendingPutLoad(t, m, n) ==
    /\ pc[t] = "idle"
    /\ Len(pending) < MaxPending
    /\ ~Tracked(m)
    /\ Unclaimed(m)
    /\ nresv' = [nresv EXCEPT ![m] = n]
    /\ Goto(t, "pending_put_304")
    /\ loc' = [loc EXCEPT ![t] = [op |-> "pending_put", m |-> m,
                                  size |-> Len(pending)]]
    /\ UNCHANGED <<bitmap, hdr_size_idx, runs, pending, unaccounted_units,
                   recalc_inprogress, lock, last>>

\* recycler_pending_put, lines 304-306: the stores of the size and the slot
T_PendingPutStore(t) ==
    /\ pc[t] = "pending_put_304"
    /\ \E stale \in [(Len(pending) + 1) .. loc[t].size -> Runs] :
            pending' = vec_store(pending, loc[t].size, stale, loc[t].m)
    /\ Return(t, [op |-> "pending_put", m |-> loc[t].m])
    /\ UNCHANGED <<heap, runs, unaccounted_units, recalc_inprogress, lock>>

\* pending_put, put and get by several threads, reservations running out
NextPend ==
    \/ \E t \in Threads, m \in Runs, n \in 1 .. MaxResv :
            T_PendingPutLoad(t, m, n)
    \/ \E t \in Threads : T_PendingPutStore(t)
    \/ \E r \in Runs : DecResv(r)
    \/ \E t \in Threads, m \in Runs : T_PutLock(t, m)
    \/ \E t \in Threads : T_PutUnlock(t)
    \/ \E t \in Threads, size_idx \in 1 .. MaxReq : T_GetLock(t, size_idx)
    \/ \E t \in Threads : T_GetUnlock(t)

SpecPend == InitMT /\ [][NextPend]_vars

\* ------------------------------------- the scorer and its callers, by step
\* The lock of run m (m->m_ops->get_lock(m)) is held by the thread that is
\* at line 166 of recycler_element_new for m.
InScorer(t) == pc[t] \in {"element_new_164", "element_new_166"}
HoldsRunLock(t, m) == pc[t] = "element_new_166" /\ loc[t].m = m

\* a get that goes on without r->lock
T_GetLock_missing(t, size_idx) ==
    /\ pc[t] = "idle"
    /\ Goto(t, "get_270")
    /\ loc' = [loc EXCEPT ![t] = [op |-> "get", n |-> size_idx]]
    /\ UNCHANGED <<heap, runs, pending, unaccounted_units,
                   recalc_inprogress, lock, last>>

\* recycler_get, line 268, in the step-by-step get
T_GetLockStep(t, size_idx) == T_GetLock(t, size_idx)

\* the caller of recycler_put scores the run it owns: the call of
\* recycler_element_new, up to line 163
T_PutScore(t, m) ==
    /\ pc[t] = "idle"
    /\ ~Tracked(m)
    /\ Unclaimed(m)
    /\ Goto(t, "element_new_164")
    /\ loc' = [loc EXCEPT ![t] = [op |-> "put", m |-> m, back |-> "put_226"]]
    /\ UNCHANGED <<heap, runs, pending, unaccounted_units,
                   recalc_inprogress, lock, last>>

\* recycler_element_new, line 164: util_mutex_lock(lock) on the run's lock
T_ScorerLock(t) ==
    /\ pc[t] = "element_new_164"
    /\ \A u \in Threads : ~HoldsRunLock(u, loc[t].m)
    /\ Goto(t, "element_new_166")
    /\ UNCHANGED <<heap, runs, pending, unaccounted_units,
                   recalc_inprogress, lock, loc, last>>

\* recycler_element_new, lines 166-214: the scan, the unlock of the run's
\* lock and the return to the caller
T_ScorerScan(t) ==
    /\ pc[t] = "element_new_166"
    /\ Goto(t, loc[t].back)
    /\ loc' = [loc EXCEPT ![t] =
                [x \in (DOMAIN @) \cup {"element"} |->
                    IF x = "element"
                    THEN recycler_element_new(bitmap[loc[t].m], loc[t].m)
                    ELSE @[x]]]
    /\ UNCHANGED <<heap, runs, pending, unaccounted_units,
                   recalc_inprogress, lock, last>>

\* recycler_put, line 226, called with the score just computed
T_PutLockScored(t) ==
    /\ pc[t] = "put_226"
    /\ lock = NoThread
    /\ lock' = t
    /\ Goto(t, "put_228")
    /\ UNCHANGED <<heap, runs, pending, unaccounted_units,
                   recalc_inprogress, loc, last>>

\* recycler_pending_put by a thread while no thread is inside a locked
\* section: the push as one step
T_PendingPutAlone(t, m, n) ==
    /\ pc[t] = "idle"
    /\ lock = NoThread
    /\ Unclaimed(m)
    /\ PendingPut(m, n)

\* recycler_get, line 270: the call of recycler_pending_check
T_PendingCheckBegin(t) ==
    /\ pc[t] = "get_270"
    /\ Goto(t, "pending_check_245")
    /\ loc' = [loc EXCEPT ![t] = [op |-> "get", n |-> loc[t].n, pos |-> 1]]
    /\ UNCHANGED <<heap, runs, pending, unaccounted_units,
                   recalc_inprogress, lock, last>>

\* recycler_pending_check, lines 245-249: the loop test, the test of nresv
\* and the call of recycler_element_new
T_PendingCheckLoop(t) ==
    /\ pc[t] = "pending_check_245"
    /\ IF loc[t].pos > Len(pending)
       THEN Goto(t, "get_272") /\ UNCHANGED loc
       ELSE IF no_reservations(pending[loc[t].pos])
       THEN /\ Goto(t, "element_new_164")
            /\ loc' = [loc EXCEPT ![t] =
                        [op |-> "get", n |-> loc[t].n, pos |-> loc[t].pos,
                         m |-> pending[loc[t].pos],
                         back |-> "pending_check_250"]]
       ELSE /\ Goto(t, "pending_check_245")
            /\ loc' = [loc EXCEPT ![t].pos = @ + 1]
    /\ UNCHANGED <<heap, runs, pending, unaccounted_units,
                   recalc_inprogress, lock, last>>

\* recycler_pending_check, lines 250-255, and the ++pos of the loop
T_PendingCheckInsert(t) ==
    /\ pc[t] = "pending_check_250"
    /\ runs' = ravl_emplace_copy(runs, loc[t].element)
    /\ pending' = VEC_ERASE_BY_POS(pending, loc[t].pos)
    /\ Goto(t, "pending_check_245")
    /\ loc' = [loc EXCEPT ![t] =
                [op |-> "get", n |-> loc[t].n, pos |-> loc[t].pos + 1]]
    /\ UNCHANGED <<heap, unaccounted_units, recalc_inprogress, lock, last>>

\* recycler_get, lines 272-294
T_GetFind(t) ==
    /\ pc[t] = "get_272"
    /\ LET n == get_find(runs, loc[t].n)
       IN  IF "null" \in DOMAIN n
           THEN /\ UNCHANGED runs
                /\ Return(t, [op |-> "get", ret |-> ENOMEM, m |-> NoRun])
           ELSE /\ runs' = ravl_remove(runs, n)
                /\ Return(t, [op |-> "get", ret |-> 0,
                              m |-> RunOfElement(n)])
    /\ lock' = NoThread
    /\ UNCHANGED <<heap, pending, unaccounted_units, recalc_inprogress>>

\* recycler_recalc, lines 329-334
T_RecalcBegin(t) ==
    /\ pc[t] = "recalc_329"
    /\ Goto(t, "recalc_336")
    /\ loc' = [loc EXCEPT ![t] =
                [op |-> "recalc", force |-> loc[t].force,
                 units |-> loc[t].units, ret |-> {},
                 search_limit |-> search_limit(loc[t].force, loc[t].units),
                 found_units |-> 0, recalc |-> <<>>, empty |-> <<>>]]
    /\ UNCHANGED <<heap, runs, pending, unaccounted_units,
                   recalc_inprogress, lock, last>>

\* recycler_recalc, lines 336-350: the least entry is taken out of the tree
\* and recycler_element_new is called for its run
T_RecalcFind(t) ==
    /\ pc[t] = "recalc_336"
    /\ LET n == ravl_find_ge(runs,
                    [max_free_block |-> 0, free_space |-> 0, zone_id |-> 0,
                     chunk_id |-> 0])
       IN  IF "null" \in DOMAIN n
           THEN Goto(t, "recalc_365") /\ UNCHANGED <<runs, loc>>
           ELSE /\ runs' = ravl_remove(runs, n)
                /\ Goto(t, "element_new_164")
                /\ loc' = [loc EXCEPT ![t] =
                            [x \in (DOMAIN @) \cup
                                {"m", "back", "existing_free_space"} |->
                                IF x = "m" THEN RunOfElement(n)
                                ELSE IF x = "back" THEN "recalc_352"
                                ELSE IF x = "existing_free_space"
                                THEN n.free_space
                                ELSE @[x]]]
    /\ UNCHANGED <<heap, pending, unaccounted_units, recalc_inprogress,
                   lock, last>>

\* recycler_recalc, lines 352-363
T_RecalcAccount(t) ==
    /\ pc[t] = "recalc_352"
    /\ LET e == loc[t].element
           found == loc[t].found_units
                        + free_space_diff(e, loc[t].existing_free_space)
       IN  /\ loc' = [loc EXCEPT ![t] =
                        [op |-> "recalc", force |-> loc[t].force,
                         units |-> loc[t].units, ret |-> {},
                         search_limit |-> loc[t].search_limit,
                         found_units |-> found,
                         recalc |-> IF is_empty_run(e) THEN loc[t].recalc
                                    ELSE VEC_PUSH_BACK(loc[t].recalc, e),
                         empty |-> IF is_empty_run(e)
                                   THEN VEC_PUSH_BACK(loc[t].empty, loc[t].m)
                                   ELSE loc[t].empty]]
           /\ IF found < loc[t].search_limit
              THEN Goto(t, "recalc_336")
              ELSE Goto(t, "recalc_365")
    /\ UNCHANGED <<heap, runs, pending, unaccounted_units,
                   recalc_inprogress, lock, last>>

\* recycler_recalc, lines 365-370
T_RecalcReinsert(t) ==
    /\ pc[t] = "recalc_365"
    /\ runs' = emplace_all(runs, loc[t].recalc)
    /\ Goto(t, "recalc_372")
    /\ loc' = [loc EXCEPT ![t] =
                [op |-> "recalc", force |-> loc[t].force,
                 units |-> loc[t].units, ret |-> SeqToSet(loc[t].empty)]]
    /\ UNCHANGED <<heap, pending, unaccounted_units, recalc_inprogress,
                   lock, last>>

NextScan ==
    \/ \E t \in Threads, m \in Runs : T_PutScore(t, m)
    \/ \E t \in Threads : T_ScorerLock(t)
    \/ \E t \in Threads : T_ScorerScan(t)
    \/ \E t \in Threads : T_PutLockScored(t)
    \/ \E t \in Threads : T_PutUnlock(t)
    \/ \E t \in Threads, m \in Runs, n \in 1 .. MaxResv :
            T_PendingPutAlone(t, m, n)
    \/ \E r \in Runs : DecResv(r)
    \/ \E t \in Threads, size_idx \in 1 .. MaxReq : T_GetLockStep(t, size_idx)
    \/ \E t \in Threads : T_PendingCheckBegin(t)
    \/ \E t \in Threads : T_PendingCheckLoop(t)
    \/ \E t \in Threads : T_PendingCheckInsert(t)
    \/ \E t \in Threads : T_GetFind(t)
    \/ \E t \in Threads, force \in BOOLEAN : T_RecalcSnapshot(t, force)
    \/ \E t \in Threads : T_RecalcCheck(t)
    \/ \E t \in Threads : T_RecalcClaim(t)
    \/ \E t \in Threads : T_RecalcLock(t)
    \/ \E t \in Threads : T_RecalcBegin(t)
    \/ \E t \in Threads : T_RecalcFind(t)
    \/ \E t \in Threads : T_RecalcAccount(t)
    \/ \E t \in Threads : T_RecalcReinsert(t)
    \/ \E t \in Threads : T_RecalcUnlock(t)
    \/ \E t \in Threads : T_RecalcSub(t)
    \/ \E t \in Threads : T_RecalcRelease(t)
    \/ \E r \in Runs, k \in Blocks : FreeBlock(r, k)

SpecScan == InitMT /\ [][NextScan]_vars

\* ===================================================== the properties
\* the order of the index, written out: max_free_block, then free_space,
\* then zone_id, then chunk_id
LexLE(e, f) ==
    \/ e.max_free_block < f.max_free_block
    \/ /\ e.max_free_block = f.max_free_block
       /\ \/ e.free_space < f.free_space
          \/ /\ e.free_space = f.free_space
             /\ \/ e.zone_id < f.zone_id
                \/ e.zone_id = f.zone_id /\ e.chunk_id <= f.chunk_id

\* the number of free blocks of a run, counted block by block
FreeCount(r) == Cardinality({k \in Blocks : ~IsAllocated(bitmap[r], k)})

\* the index a get searches: the index before the call together with the
\* scores of the runs the call's drain took out of the pending queue, given
\* the queue the call leaves
Drained(pend_after) ==
    runs \cup {recycler_element_new(bitmap[m], m) :
                    m \in SeqToSet(pending) \ SeqToSet(pend_after)}

\* --------------------------------------------------------------------- C1
\* C1: at most one recycler_recalc call at a time is between its successful
\* 0->1 compare-and-swap of recalc_inprogress and its 1->0 release
InGate(t) ==
    pc[t] \in {"recalc_326", "recalc_329", "recalc_372", "recalc_374",
               "recalc_375"}

C1_SingleFlight ==
    \A t \in Threads, u \in Threads : InGate(t) /\ InGate(u) => t = u

\* a pass is about to work on a non-empty index while another call is
\* between its snapshot and its compare-and-swap
C1_Witness ==
    \E t \in Threads, u \in Threads :
        /\ pc[t] = "recalc_329"
        /\ runs # {}
        /\ pc[u] \in {"recalc_320", "recalc_323"}

\* --------------------------------------------------------------------- C2
\* C2: a successful recycler_get(n) returns the run of the least entry, in
\* the order (max_free_block, free_space, zone_id, chunk_id), among the
\* entries with max_free_block >= n present after the drain; that entry is
\* removed and every other entry stays
C2_BestFit ==
    [][(last'.op = "get" /\ last'.ret = 0) =>
        LET D == Drained(pending')
            cand == {e \in D : e.max_free_block >= last'.n}
        IN  /\ last'.ne \in cand
            /\ RunOfElement(last'.ne) = last'.m
            /\ \A f \in cand : LexLE(last'.ne, f)
            /\ runs' = D \ {last'.ne}]_vars

\* a get has returned a run while another entry with the same
\* max_free_block stayed in the index
C2_Witness ==
    /\ last.op = "get"
    /\ last.ret = 0
    /\ \E f \in runs : f.max_free_block = last.ne.max_free_block

\* --------------------------------------------------------------------- C3
\* C3: recycler_get(n) fails with ENOMEM exactly when no entry present after
\* the drain has max_free_block >= n, and a failed get removes nothing; with
\* only A and B in the recycler, A too small and B large enough for n, get(n)
\* returns B, and the next get(n) fails and leaves A in the index
C3_OutOfStock ==
    [][last'.op = "get" =>
        LET D == Drained(pending')
            n == last'.n
        IN  /\ last'.ret \in {0, ENOMEM}
            /\ (last'.ret = ENOMEM <=> ~\E e \in D : e.max_free_block >= n)
            /\ (last'.ret = ENOMEM => runs' = D /\ runs \subseteq runs')
            /\ \A A \in runs, B \in runs :
                (/\ pending = <<>>
                 /\ runs = {A, B}
                 /\ A.max_free_block < n
                 /\ B.max_free_block >= n)
                => last'.ret = 0 /\ last'.ne = B /\ runs' = {A}
            /\ \A A \in runs :
                (pending = <<>> /\ runs = {A} /\ A.max_free_block < n)
                => last'.ret = ENOMEM /\ runs' = {A}]_vars

\* a get has failed and left in the index an entry with 2 free blocks, the
\* largest free block of which is 1, smaller than the 2 asked for
C3_Witness ==
    /\ last.op = "get"
    /\ last.ret = ENOMEM
    /\ last.n = 2
    /\ \E A \in runs : A.free_space = 2 /\ A.max_free_block = 1

\* --------------------------------------------------------------------- C4
\* C4 as claimed: after put(h, s), a get(s.max_free_block) that comes next
\* returns h
C4_RoundTrip ==
    [][(/\ last.op = "put"
        /\ last'.op = "get"
        /\ last'.n = last.element.max_free_block)
       => (last'.ret = 0 /\ last'.m = last.m)]_vars

\* C4 as amended: after put(h, s), a get(s.max_free_block) that comes next
\* succeeds and returns the run of an entry with the max_free_block of s that
\* is not above s in the order of the index; it returns h when no entry with
\* max_free_block >= s.max_free_block present after the drain is below s, as
\* when h is the only run the recycler holds
C4_RoundTripLeast ==
    [][(/\ last.op = "put"
        /\ last'.op = "get"
        /\ last'.n = last.element.max_free_block)
       => LET s == last.element
              D == Drained(pending')
          IN  /\ last'.ret = 0
              /\ last'.ne.max_free_block = s.max_free_block
              /\ LexLE(last'.ne, s)
              /\ (\A f \in D : f.max_free_block >= s.max_free_block
                                    => LexLE(s, f))
                    => last'.m = last.m
              /\ (runs = {s} /\ pending = <<>>) => last'.m = last.m]_vars

\* a get that came right after put(h, s) with s.max_free_block has returned
\* h although the index holds other entries
C4_Witness ==
    /\ last.op = "get"
    /\ last.after_put # NoRun
    /\ last.m = last.after_put
    /\ runs # {}

\* --------------------------------------------------------------------- C5
\* C5 as claimed: the size_idx a successful get(n) writes into the handle is
\* never below n
C5_SizeAtLeastRequest ==
    (last.op = "get" /\ last.ret = 0) => last.size_idx >= last.n

\* C5 as amended: the size_idx a successful get(n) writes into the handle is
\* the size_idx of the chunk header of the run returned, whatever n was; what
\* is never below n is the max_free_block of the index entry returned
C5_SizeFromHeader ==
    (last.op = "get" /\ last.ret = 0) =>
        /\ last.size_idx = hdr_size_idx[last.m]
        /\ last.ne.max_free_block >= last.n

\* a get has returned a run whose header size_idx is below the size asked for
C5_Witness ==
    /\ last.op = "get"
    /\ last.ret = 0
    /\ last.size_idx < last.n

\* --------------------------------------------------------------------- C6
\* C6: a run in the pending queue with a nonzero nresv stays in the queue
\* over every call, is not in the index, is not returned by a get and is not
\* returned by a recalc
C6_ReservedInvisible ==
    [][\A r \in Runs :
        (InPending(r) /\ nresv[r] > 0) =>
            /\ \E i \in 1 .. Len(pending') : pending'[i] = r
            /\ \A e \in runs' : RunOfElement(e) # r
            /\ (last'.op = "get" => last'.m # r)
            /\ (last'.op = "recalc" => r \notin last'.ret)]_vars

\* a get has failed although a pending run with a nonzero nresv has a free
\* block of the size asked for
C6_Witness ==
    /\ last.op = "get"
    /\ last.ret = ENOMEM
    /\ \E r \in Runs :
        /\ InPending(r)
        /\ nresv[r] > 0
        /\ recycler_element_new(bitmap[r], r).max_free_block >= last.n

\* --------------------------------------------------------------------- C7
\* C7: when a get returns, every run that was in the pending queue with
\* nresv = 0 when the call began has left the queue and is in the index (or
\* is the run the get returned)
C7_DrainComplete ==
    [][last'.op = "get" =>
        \A i \in 1 .. Len(pending) :
            nresv[pending[i]] = 0 =>
                /\ \A j \in 1 .. Len(pending') : pending'[j] # pending[i]
                /\ \/ \E e \in runs' : RunOfElement(e) = pending[i]
                   \/ last'.m = pending[i]]_vars

C9_BelowThresholdNoop ==
    [][(/\ last'.op = "recalc"
        /\ ~last'.force
        /\ unaccounted_units < recalc_threshold)
       => /\ last'.ret = {}
          /\ ~last'.pass
          /\ UNCHANGED <<runs, pending, unaccounted_units,
                         recalc_inprogress>>]_vars

\* an unforced recalc has returned without a pass although units were
\* unaccounted for and an entry of the index was out of date
C9_Witness ==
    /\ last.op = "recalc"
    /\ ~last.force
    /\ ~last.pass
    /\ unaccounted_units > 0
    /\ unaccounted_units < recalc_threshold
    /\ \E e \in runs : FreeCount(RunOfElement(e)) > e.free_space

\* -------------------------------------------------------------------- C10
RECURSIVE DriftOf(_)
DriftOf(S) ==
    IF S = {} THEN 0
    ELSE LET e == CHOOSE e \in S : TRUE
         IN  (FreeCount(RunOfElement(e)) - e.free_space) + DriftOf(S \ {e})

\* C10: recalc_threshold is 2 * nallocs; recycler_recalc(force = false)
\* returns nothing and makes no pass while unaccounted_units is below
\* 2 * nallocs; from 2 * nallocs on it makes a pass, every run it returns is
\* all free and no longer in the index, and when the units cover the free
\* blocks the index has not accounted for, it returns every run of the index
\* that has become all free
C10_ThresholdTrigger ==
    [][(last'.op = "recalc" /\ ~last'.force) =>
        LET u == unaccounted_units
        IN  /\ recalc_threshold = 2 * Nallocs
            /\ u < 2 * Nallocs =>
                    ~last'.pass /\ last'.ret = {} /\ runs' = runs
            /\ u >= 2 * Nallocs =>
                /\ last'.pass
                /\ unaccounted_units' = 0
                /\ \A r \in last'.ret :
                    /\ FreeCount(r) = Nallocs
                    /\ \E e \in runs : RunOfElement(e) = r
                    /\ \A e \in runs' : RunOfElement(e) # r
                /\ DriftOf(runs) <= u =>
                    \A e \in runs :
                        (/\ FreeCount(RunOfElement(e)) = Nallocs
                         /\ e.free_space < Nallocs)
                        => RunOfElement(e) \in last'.ret]_vars

\* an unforced recalc called with exactly 2 * nallocs unaccounted units has
\* made a pass and returned two runs
C10_Witness ==
    /\ last.op = "recalc"
    /\ ~last.force
    /\ last.pass
    /\ last.units = 2 * Nallocs
    /\ Cardinality(last.ret) = 2

\* -------------------------------------------------------------------- C11
InIndexOf(tree, r) == \E e \in tree : RunOfElement(e) = r
InPendingOf(vec, r) == \E i \in 1 .. Len(vec) : vec[i] = r

\* a call returns in this step
Returns(t, label) == pc[t] = label /\ pc'[t] = "idle"

\* run r goes back to a caller in this step: a get returns it
GivenBack(r) ==
    \E t \in Threads :
        Returns(t, "get_270") /\ last'.ret = 0 /\ last'.m = r

\* C11: with every run handed over once, by put or by pending_put, in the
\* states where the lock is free a run the recycler owns is in the index or
\* in the pending queue and not in both: a put leaves its run in the index,
\* a pending_put leaves its run in the queue, and a run that is in one of
\* the two stays in exactly one of them until a get gives it back
C11_TrackedOnce ==
    [][\A r \in Runs :
        /\ (\E t \in Threads : Returns(t, "put_228") /\ loc[t].m = r)
                => InIndexOf(runs', r)
        /\ (\E t \in Threads : Returns(t, "pending_put_304") /\ loc[t].m = r)
                => InPendingOf(pending', r)
        /\ lock' = NoThread
                => ~(InIndexOf(runs', r) /\ InPendingOf(pending', r))
        /\ (Tracked(r) /\ lock' = NoThread /\ ~GivenBack(r))
                => (InIndexOf(runs', r) \/ InPendingOf(pending', r))]_vars

\* -------------------------------------------------------------------- C12
\* the places where a call reads or writes r->runs or r->pending
AccessesContainers(t) ==
    pc[t] \in {"put_228", "get_270", "recalc_329", "pending_put_304"}

\* C12: a thread that reads or writes the index or the pending queue holds
\* r->lock, so no two threads are at such a place at the same time
C12_LockProtects ==
    /\ \A t \in Threads : AccessesContainers(t) => lock = t
    /\ \A t \in Threads, u \in Threads :
            (AccessesContainers(t) /\ AccessesContainers(u)) => t = u

Moves(t, from, to) == pc[t] = from /\ pc'[t] = to

\* C14: the units a call of recalc holds are the value of unaccounted_units
\* at its line 318; the subtraction at the end of a pass lowers the counter
\* by exactly these units, whatever was added since; an inc_unaccounted(k)
\* raises the counter by exactly k; and nothing else changes the counter, so
\* no increment made during a pass is lost
C14_NoLostIncrement ==
    [][/\ \A t \in Threads :
            /\ Moves(t, "idle", "recalc_320") =>
                    /\ loc'[t].units = unaccounted_units
                    /\ unaccounted_units' = unaccounted_units
            /\ Moves(t, "recalc_374", "recalc_375") =>
                    unaccounted_units' = unaccounted_units - loc[t].units
       /\ unaccounted_units' # unaccounted_units =>
            \/ \E t \in Threads : Moves(t, "recalc_374", "recalc_375")
            \/ /\ pc' = pc
               /\ last'.op = "inc_unaccounted"
               /\ \E k \in 1 .. Nallocs :
                    unaccounted_units' = unaccounted_units + k]_vars

\* a pass has subtracted the units it took at entry and the counter still
\* holds what was added during the pass
C14_Witness ==
    \E t \in Threads :
        /\ pc[t] = "recalc_375"
        /\ loc[t].units > 0
        /\ unaccounted_units > 0

\* -------------------------------------------------------------------- C16
\* C16: a call of recalc, forced or not, that finds recalc_inprogress set
\* at line 320, or that loses the compare-and-swap of line 323, returns at
\* that step with no run and without a pass; the step, like every step of
\* the call before it, leaves the index, the pending queue,
\* unaccounted_units, recalc_inprogress and r->lock as they were, and the
\* call holds r->lock at no time
C16_GateLoserNoEffect ==
    [][\A t \in Threads :
        /\ pc[t] \in {"recalc_320", "recalc_323"} => lock # t
        /\ (pc'[t] \in {"recalc_320", "recalc_323"} /\ pc'[t] # pc[t]) =>
                /\ UNCHANGED <<runs, pending, unaccounted_units, lock>>
                /\ recalc_inprogress' = recalc_inprogress
        /\ (/\ pc[t] \in {"recalc_320", "recalc_323"}
            /\ recalc_inprogress # 0
            /\ pc'[t] # pc[t]) =>
                /\ pc'[t] = "idle"
                /\ last'.op = "recalc"
                /\ last'.force = loc[t].force
                /\ last'.ret = {}
                /\ ~last'.pass
                /\ UNCHANGED <<runs, pending, unaccounted_units, lock>>
                /\ recalc_inprogress' = recalc_inprogress]_vars

\* a forced call has returned without a pass and with no run while the pass
\* of another thread held the gate and the index was not empty
C16_Witness ==
    /\ last.op = "recalc"
    /\ last.force
    /\ ~last.pass
    /\ \E u \in Threads : InGate(u)
    /\ runs # {}
    /\ recalc_inprogress = 1

\* -------------------------------------------------------------------- C17
\* C17: unaccounted_units never wraps below zero: the units a pass is about
\* to subtract at line 374 are not above the value of the counter
C17_NoWrap ==
    /\ unaccounted_units >= 0
    /\ \A t \in Threads :
            pc[t] = "recalc_374" => loc[t].units <= unaccounted_units

\* -------------------------------------------------------------------- C18
\* C18: while a call is between its claim of the gate and its release,
\* recalc_inprogress is 1 and only that call's release changes it, to 0; so
\* the compare-and-swap from 1 to 0 at line 375 succeeds whenever it is
\* reached
C18_ReleaseSucceeds ==
    [][\A t \in Threads :
        /\ InGate(t) => recalc_inprogress = 1
        /\ pc[t] = "recalc_375" => recalc_release
        /\ (InGate(t) /\ recalc_inprogress' # recalc_inprogress) =>
                /\ Moves(t, "recalc_375", "idle")
                /\ recalc_inprogress' = 0]_vars

\* a pass is at its release while another call, past the test of line 320,
\* is about to try the compare-and-swap of line 323
C18_Witness ==
    \E t \in Threads, u \in Threads :
        /\ pc[t] = "recalc_375"
        /\ pc[u] = "recalc_323"

\* -------------------------------------------------------------------- C15
\* the clear bits of a bitmap, counted bit by bit
ClearBits(bm, bits, words) ==
    Cardinality({p \in (1 .. words) \X (0 .. (bits - 1)) :
                    ~BitSet(bm[p[1]], p[2])})

\* the stretches of clear bits that lie within one word
ClearStretches(bm, bits, words) ==
    {q \in (1 .. words) \X (0 .. (bits - 1)) \X (0 .. (bits - 1)) :
        /\ q[2] <= q[3]
        /\ \A c \in q[2] .. q[3] : ~BitSet(bm[q[1]], c)}

\* the length of the longest of them, 0 when no bit is clear
LongestClearStretch(bm, bits, words) ==
    LET S == ClearStretches(bm, bits, words)
    IN  IF S = {} THEN 0
        ELSE LET q == CHOOSE q \in S :
                        \A o \in S : o[3] - o[2] <= q[3] - q[2]
             IN  q[3] - q[2] + 1

\* the largest result of the inner loop over all the words, none skipped
RECURSIVE EveryWordMax(_, _, _)
EveryWordMax(bm, i, bits) ==
    IF i = 0 THEN 0
    ELSE LET n == longest_in_value(BitNotW(bm[i], bits), bits)
             rest == EveryWordMax(bm, i - 1, bits)
         IN  IF n > rest THEN n ELSE rest

\* C15: for every bitmap, recycler_element_new returns free_space equal to
\* the number of clear bits of the whole bitmap and max_free_block equal to
\* the longest stretch of clear bits within one word, which is not above
\* free_space and is what the scan finds when it skips no word; the handle's
\* zone_id and chunk_id are copied
C15_ScorerExact ==
    last.op = "score" =>
        LET e == last.element
            bm == bitmap[last.m]
        IN  /\ e.free_space =
                    ClearBits(bm, ScorerBitsPerValue, ScorerBitmapValues)
            /\ e.max_free_block =
                    LongestClearStretch(bm, ScorerBitsPerValue,
                                        ScorerBitmapValues)
            /\ e.max_free_block <= e.free_space
            /\ e.max_free_block =
                    EveryWordMax(bm, ScorerBitmapValues, ScorerBitsPerValue)
            /\ e.zone_id = zone_id(last.m)
            /\ e.chunk_id = chunk_id(last.m)

\* a bitmap has been scored whose second word, with clear bits that do not
\* touch, has fewer clear bits than the longest stretch of the first word, so
\* that the scan skipped it
C15_Witness ==
    /\ last.op = "score"
    /\ LET bm == bitmap[last.m]
           v1 == BitNotW(bm[1], ScorerBitsPerValue)
           v2 == BitNotW(bm[2], ScorerBitsPerValue)
       IN  /\ util_popcount64(v2) > 1
           /\ util_popcount64(v2) < longest_in_value(v1, ScorerBitsPerValue)
           /\ longest_in_value(v2, ScorerBitsPerValue) = 1
           /\ last.element.max_free_block < last.element.free_space

\* -------------------------------------------------------------------- C19
\* C19: with every score computed by recycler_element_new from the run's
\* bitmap and blocks only freed while a run is in the index, no entry of the
\* index has a free_space above the free blocks of its run, and for every
\* entry a pass of recalc rescans the new free_space is not below the one
\* stored: the assertion of line 352 holds throughout the pass and
\* found_units is a sum of differences none of which is negative
C19_ScoresDriftLow ==
    [][/\ \A e \in runs : e.free_space <= FreeCount(RunOfElement(e))
       /\ (last'.op = "recalc" /\ last'.pass) =>
            LET p == recalc_pass(last'.force, last'.units)
            IN  /\ p.assert_ok
                /\ last'.found_units = p.found_units
                /\ p.found_units >= 0
                /\ p.found_units <= DriftOf(runs)
                /\ \A e \in runs, f \in runs' :
                        RunOfElement(f) = RunOfElement(e)
                            => f.free_space >= e.free_space]_vars

\* a pass has found blocks freed since the scores were taken, in runs that
\* still hold allocated blocks and stay in the index with their new scores
C19_Witness ==
    /\ last.op = "recalc"
    /\ last.pass
    /\ last.found_units >= 2
    /\ last.ret = {}
    /\ Cardinality(runs) = 2

\* -------------------------------------------------------------------- C20
\* C20: with recycler_get called again and again, a run that is in the
\* pending queue with nresv = 0 eventually is out of the queue and in the
\* index, or is the run the get that drained it returned, wherever it
\* stands in the queue and whatever a get drains before it
C20_EventuallyDrained ==
    \A r \in Runs :
        (InPending(r) /\ nresv[r] = 0)
            ~> (/\ ~InPending(r)
                /\ InIndex(r) \/ (last.op = "get" /\ last.m = r))

\* a get has returned and left in the queue a run without reservations: the
\* drain erased the entry before it and passed over it
C20_Witness ==
    /\ last.op = "get"
    /\ \E r \in Runs : InPending(r) /\ nresv[r] = 0

=============================================================================
